---- MODULE Spec2Model ----
(***************************************************************************)
(* Krader: a watch list of Kraken futures tickers shown in a table with    *)
(* resizable, scroll-synchronised columns (src/src/main.rs).               *)
(*                                                                         *)
(* The application is an iced state machine: Krader::new builds the state  *)
(* and launches the first fetch, Krader::subscription emits FetchData      *)
(* every 5 seconds, and Krader::update handles one Message at a time.      *)
(* The runtime delivers messages one by one in arrival order, so every     *)
(* action below is one call of Krader::update on one message.  A fetch     *)
(* task that has been launched and has not yet delivered its DataFetched   *)
(* message is "in flight"; the order in which in-flight fetches complete   *)
(* is not determined by the program.                                       *)
(*                                                                         *)
(* f32 / f64 values are modelled by integers.                              *)
(***************************************************************************)
EXTENDS Integers, Sequences, FiniteSets, TLC

\* ------------------------------------------------------------------ bounds
\* Total number of fetches launched in a behaviour (startup fetch + ticks).
MaxFetches == 2
\* Total number of Resizing messages in a behaviour.
MaxResizing == 2

\* Longest side (bids or asks) of an order book a response carries.
MaxLevels == 2

\* ------------------------------------------------------- program constants
\* WatchlistColumn::new: every kind gets width 100.0.
DefaultWidth == 100
\* Number of columns built by Krader::new.
NumColumns == 23

\* Option<T>: None is the empty sequence, Some(v) the one-element sequence.
None == << >>
Some(v) == << v >>
unwrap(o) == o[1]

\* ColumnKind, in the order Krader::new pushes the columns (index 0 first).
ColumnKinds ==
    << "Pair", "MarkPrice", "Vol24h", "VolumeQuote", "Symbol", "Last",
       "LastTime", "Tag", "Bid", "BidSize", "Ask", "AskSize", "OpenInterest",
       "Open24h", "High24h", "Low24h", "LastSize", "FundingRate",
       "FundingRatePrediction", "Suspended", "IndexPrice", "PostOnly",
       "Change24h" >>

\* struct WatchItem: 23 optional fields.
WatchItemFields ==
    { "symbol", "last", "last_time", "tag", "pair", "mark_price", "bid",
      "bid_size", "ask", "ask_size", "vol24h", "volume_quote",
      "open_interest", "open24h", "high24h", "low24h", "last_size",
      "funding_rate", "funding_rate_prediction", "suspended", "index_price",
      "post_only", "change24h" }

\* A ticker with every field present.
ItemFull ==
    [ symbol |-> Some("PI_XBTUSD"), last |-> Some(10), last_time |-> Some("t1"), tag |-> Some("perpetual"),
      pair |-> Some("XBT:USD"), mark_price |-> Some(11), bid |-> Some(9), bid_size |-> Some(2),
      ask |-> Some(12), ask_size |-> Some(3), vol24h |-> Some(500), volume_quote |-> Some(600),
      open_interest |-> Some(70), open24h |-> Some(8), high24h |-> Some(13), low24h |-> Some(7),
      last_size |-> Some(1), funding_rate |-> Some(4), funding_rate_prediction |-> Some(5),
      suspended |-> Some(FALSE), index_price |-> Some(10), post_only |-> Some(TRUE),
      change24h |-> Some(6) ]

\* A ticker with every optional field absent.
ItemEmpty == [ f \in WatchItemFields |-> None ]

\* The tickers a response may carry.
Items == { ItemFull, ItemEmpty }

\* resp.tickers: the ticker lists a response may carry (empty, one ticker, and
\* the same two tickers in both orders).
Batches ==
    { << >>, << ItemFull >>, << ItemFull, ItemEmpty >>, << ItemEmpty, ItemFull >> }

\* FetchError::to_string() as fetch_data can produce it (both `?` convert a
\* reqwest::Error into FetchError::Http).
Errors == { "HTTP request failed: connect", "HTTP request failed: decode" }

\* Result<Vec<WatchItem>, String> carried by Message::DataFetched.
Ok(watch_list_) == [ ok |-> TRUE, val |-> watch_list_ ]
Err(e) == [ ok |-> FALSE, val |-> e ]

\* scrollable::AbsoluteOffset values reported by the body pane.
ZeroOffset == [ x |-> 0, y |-> 0 ]
Offsets == { [ x |-> 30, y |-> 0 ], [ x |-> 30, y |-> 12 ] }

\* Column indices carried by Message::Resizing: the first, the second and the
\* last column, and one index past the end.
ResizeIndices == { 0, 1, NumColumns - 1, NumColumns }
\* Deltas carried by Message::Resizing.
ResizeOffsets == { -150, 40 }

\* The WatchItem field each ColumnKind shows (match arms of cell).
FieldOf(kind) ==
    CASE kind = "Symbol" -> "symbol"
      [] kind = "Last" -> "last"
      [] kind = "LastTime" -> "last_time"
      [] kind = "Tag" -> "tag"
      [] kind = "Pair" -> "pair"
      [] kind = "MarkPrice" -> "mark_price"
      [] kind = "Bid" -> "bid"
      [] kind = "BidSize" -> "bid_size"
      [] kind = "Ask" -> "ask"
      [] kind = "AskSize" -> "ask_size"
      [] kind = "Vol24h" -> "vol24h"
      [] kind = "VolumeQuote" -> "volume_quote"
      [] kind = "OpenInterest" -> "open_interest"
      [] kind = "Open24h" -> "open24h"
      [] kind = "High24h" -> "high24h"
      [] kind = "Low24h" -> "low24h"
      [] kind = "LastSize" -> "last_size"
      [] kind = "FundingRate" -> "funding_rate"
      [] kind = "FundingRatePrediction" -> "funding_rate_prediction"
      [] kind = "Suspended" -> "suspended"
      [] kind = "IndexPrice" -> "index_price"
      [] kind = "PostOnly" -> "post_only"
      [] kind = "Change24h" -> "change24h"

\* Kinds whose field is an Option<String> and kinds whose field is an
\* Option<bool>; every other kind shows an Option<f64>.
StringKinds == { "Symbol", "LastTime", "Tag", "Pair" }
BoolKinds == { "Suspended", "PostOnly" }

\* Kinds whose arm of cell is unwrap_or_default().to_string().
DefaultingKinds ==
    { "Last", "VolumeQuote", "OpenInterest", "FundingRate", "FundingRatePrediction" }

\* format!("{}", v) / to_string() of a present value.
format(kind, v) ==
    IF kind \in StringKinds THEN v
    ELSE IF kind \in BoolKinds THEN (IF v THEN "true" ELSE "false")
    ELSE ToString(v)

\* WatchlistColumn::cell: the text the cell of a column of this kind shows
\* for the row.
cell(kind, row) ==
    LET o == row[FieldOf(kind)]
    IN  IF kind \in DefaultingKinds
          THEN format(kind, IF o = None THEN 0 ELSE unwrap(o))
          ELSE IF o = None THEN "N/A" ELSE format(kind, unwrap(o))

\* Order book (specification, sections 3 and 4.4): the tracked pair, the
\* (price, size) levels a feed may carry, the sides built from them in feed
\* order, and the books a successful fetch may return.
TrackedPair == "XBT/USD"
Pairs == { TrackedPair, "ETH/USD" }
Levels == { << 100, 2 >>, << 99, 3 >> }
Sides == UNION { [ 1 .. n -> Levels ] : n \in 0 .. MaxLevels }
OrderBooks == [ pair : Pairs, bids : Sides, asks : Sides ]

VARIABLES
    columns,      \* Krader.columns: index -> [kind, width, resize_offset]
    watch_list,   \* Krader.watch_list
    scroll,       \* absolute offsets of the header, body and footer panes
    inflight,     \* fetch tasks launched and not yet delivered
    next_id,      \* number of fetch tasks launched so far
    applied,      \* ids of the fetches whose DataFetched was handled, in order
    stderr,       \* lines written by eprintln!
    begun,        \* columns that received Resizing since the last Resized
    nresizing,    \* number of Resizing messages handled
    order_book    \* Order Book State: [pair, bids, asks, last_error]

vars == << columns, watch_list, scroll, inflight, next_id, applied, stderr,
           begun, nresizing, order_book >>

viewVars == << columns, scroll, begun, nresizing >>
dataVars == << watch_list, inflight, next_id, applied, stderr >>

ColumnIndices == 0 .. (NumColumns - 1)

\* WatchlistColumn::new
WatchlistColumn_new(kind) ==
    [ kind |-> kind, width |-> DefaultWidth, resize_offset |-> None ]

\* Krader::new returning Task::none(): no fetch until the first tick.
Init_NoStartupFetch ==
    /\ columns = [ i \in ColumnIndices |-> WatchlistColumn_new(ColumnKinds[i + 1]) ]
    /\ watch_list = << >>
    /\ scroll = [ header |-> ZeroOffset, body |-> ZeroOffset, footer |-> ZeroOffset ]
    /\ inflight = { }
    /\ next_id = 0
    /\ applied = << >>
    /\ stderr = << >>
    /\ begun = { }
    /\ nresizing = 0
    /\ order_book = [ pair |-> TrackedPair, bids |-> << >>, asks |-> << >>,
                      last_error |-> None ]

\* Krader::new: the state, and one fetch task already launched.
Init ==
    /\ columns = [ i \in ColumnIndices |-> WatchlistColumn_new(ColumnKinds[i + 1]) ]
    /\ watch_list = << >>
    /\ scroll = [ header |-> ZeroOffset, body |-> ZeroOffset, footer |-> ZeroOffset ]
    /\ inflight = { 0 }
    /\ next_id = 1
    /\ applied = << >>
    /\ stderr = << >>
    /\ begun = { }
    /\ nresizing = 0
    /\ order_book = [ pair |-> TrackedPair, bids |-> << >>, asks |-> << >>,
                      last_error |-> None ]

\* SyncHeader with the scroll_to of the footer left out.
SyncHeader_HeaderOnly(offset) ==
    /\ scroll' = [ header |-> offset, body |-> offset, footer |-> scroll.footer ]
    /\ UNCHANGED << columns, begun, nresizing >>
    /\ UNCHANGED dataVars
    /\ UNCHANGED order_book

\* Message::SyncHeader(offset): the body pane reports its new offset; the
\* handler scrolls the header and the footer to it.  The two scroll_to tasks
\* the handler returns are run by the runtime before the next message is
\* handled, so they are part of this step.
SyncHeader(offset) ==
    /\ scroll' = [ header |-> offset, body |-> offset, footer |-> offset ]
    /\ UNCHANGED << columns, begun, nresizing >>
    /\ UNCHANGED dataVars
    /\ UNCHANGED order_book

\* Resizing that keeps a single column in the resizing state: the pending
\* offsets of the other columns are dropped.
Resizing_ResetsOthers(index, offset) ==
    /\ nresizing < MaxResizing
    /\ nresizing' = nresizing + 1
    /\ IF index \in DOMAIN columns
         THEN /\ columns' = [ i \in DOMAIN columns |->
                                [ columns[i] EXCEPT !.resize_offset =
                                    IF i = index THEN Some(offset) ELSE None ] ]
              /\ begun' = { index }
         ELSE UNCHANGED << columns, begun >>
    /\ UNCHANGED scroll
    /\ UNCHANGED dataVars
    /\ UNCHANGED order_book

\* Resizing that adds the delta to an offset already pending.
Resizing_Accumulates(index, offset) ==
    /\ nresizing < MaxResizing
    /\ nresizing' = nresizing + 1
    /\ IF index \in DOMAIN columns
         THEN /\ columns' = [ columns EXCEPT ![index].resize_offset =
                                IF @ = None THEN Some(offset)
                                            ELSE Some(unwrap(@) + offset) ]
              /\ begun' = begun \cup { index }
         ELSE UNCHANGED << columns, begun >>
    /\ UNCHANGED scroll
    /\ UNCHANGED dataVars
    /\ UNCHANGED order_book

\* Message::Resizing(index, offset)
Resizing(index, offset) ==
    /\ nresizing < MaxResizing
    /\ nresizing' = nresizing + 1
    /\ IF index \in DOMAIN columns
         THEN /\ columns' = [ columns EXCEPT ![index].resize_offset = Some(offset) ]
              /\ begun' = begun \cup { index }
         ELSE UNCHANGED << columns, begun >>
    /\ UNCHANGED scroll
    /\ UNCHANGED dataVars
    /\ UNCHANGED order_book

\* The commit of one column that adds the pending offset and leaves it pending.
commit_KeepsOffset(column) ==
    IF column.resize_offset # None
      THEN [ column EXCEPT !.width = column.width + unwrap(column.resize_offset) ]
      ELSE column

\* The closure Resized runs on every column: take the pending offset, if
\* any, and add it to the width.
commit(column) ==
    IF column.resize_offset # None
      THEN [ column EXCEPT !.width = column.width + unwrap(column.resize_offset),
                           !.resize_offset = None ]
      ELSE column

\* Resized committing only the first column that has a pending offset.
Resized_FirstOnly ==
    /\ LET pending == { i \in DOMAIN columns : columns[i].resize_offset # None }
       IN  columns' = [ i \in DOMAIN columns |->
                          IF i \in pending /\ \A j \in pending : i <= j
                            THEN [ columns[i] EXCEPT
                                     !.width = columns[i].width + unwrap(columns[i].resize_offset),
                                     !.resize_offset = None ]
                            ELSE columns[i] ]
    /\ begun' = { }
    /\ UNCHANGED << scroll, nresizing >>
    /\ UNCHANGED dataVars
    /\ UNCHANGED order_book

\* Resized reading the pending offset without taking it.
Resized_KeepsOffset ==
    /\ columns' = [ i \in DOMAIN columns |->
                      IF columns[i].resize_offset # None
                        THEN [ columns[i] EXCEPT
                                 !.width = columns[i].width + unwrap(columns[i].resize_offset) ]
                        ELSE columns[i] ]
    /\ begun' = { }
    /\ UNCHANGED << scroll, nresizing >>
    /\ UNCHANGED dataVars
    /\ UNCHANGED order_book

\* Message::Resized
Resized ==
    /\ columns' = [ i \in DOMAIN columns |-> commit(columns[i]) ]
    /\ begun' = { }
    /\ UNCHANGED << scroll, nresizing >>
    /\ UNCHANGED dataVars
    /\ UNCHANGED order_book

\* FetchData aborting the fetches still in flight before launching the new one.
FetchData_Cancels ==
    /\ next_id < MaxFetches
    /\ inflight' = { next_id }
    /\ next_id' = next_id + 1
    /\ UNCHANGED << watch_list, applied, stderr >>
    /\ UNCHANGED viewVars
    /\ UNCHANGED order_book

\* Message::FetchData (one tick of the subscription): launch one more fetch.
FetchData ==
    /\ next_id < MaxFetches
    /\ inflight' = inflight \cup { next_id }
    /\ next_id' = next_id + 1
    /\ UNCHANGED << watch_list, applied, stderr >>
    /\ UNCHANGED viewVars
    /\ UNCHANGED order_book

\* DataFetched(Ok) rebuilding the columns along with the rows.
DataFetchedOk_ResetsColumns(f, tickers) ==
    /\ f \in inflight
    /\ inflight' = inflight \ { f }
    /\ applied' = Append(applied, f)
    /\ watch_list' = tickers
    /\ columns' = [ i \in ColumnIndices |-> WatchlistColumn_new(ColumnKinds[i + 1]) ]
    /\ begun' = { }
    /\ UNCHANGED << next_id, stderr, scroll, nresizing >>
    /\ UNCHANGED order_book

\* DataFetched(Ok) extending the watch list instead of replacing it.
DataFetchedOk_Merge(f, tickers) ==
    /\ f \in inflight
    /\ inflight' = inflight \ { f }
    /\ applied' = Append(applied, f)
    /\ watch_list' = watch_list \o tickers
    /\ UNCHANGED << next_id, stderr >>
    /\ UNCHANGED viewVars
    /\ UNCHANGED order_book

\* DataFetched(Ok) delivered by a task that stays in flight and delivers again.
DataFetchedOk_Redelivers(f, tickers) ==
    /\ f \in inflight
    /\ inflight' = inflight
    /\ Len(applied) < MaxFetches
    /\ applied' = Append(applied, f)
    /\ watch_list' = tickers
    /\ UNCHANGED << next_id, stderr >>
    /\ UNCHANGED viewVars
    /\ UNCHANGED order_book

\* Message::DataFetched(Ok(watch_list)) delivered by in-flight fetch f.
DataFetchedOk(f, tickers) ==
    /\ f \in inflight
    /\ inflight' = inflight \ { f }
    /\ applied' = Append(applied, f)
    /\ watch_list' = tickers
    /\ UNCHANGED << next_id, stderr >>
    /\ UNCHANGED viewVars
    /\ UNCHANGED order_book

\* DataFetched(Err) unwinding instead of returning (a panic on the error):
\* the handler produces no next state.
DataFetchedErr_Panics(f, e) ==
    /\ f \in inflight
    /\ e \notin Errors
    /\ UNCHANGED vars

\* DataFetched(Err) dropping the rows it can no longer refresh.
DataFetchedErr_ClearsRows(f, e) ==
    /\ f \in inflight
    /\ inflight' = inflight \ { f }
    /\ applied' = Append(applied, f)
    /\ stderr' = Append(stderr, e)
    /\ watch_list' = << >>
    /\ UNCHANGED next_id
    /\ UNCHANGED viewVars
    /\ UNCHANGED order_book

\* Message::DataFetched(Err(e)) delivered by in-flight fetch f.
DataFetchedErr(f, e) ==
    /\ f \in inflight
    /\ inflight' = inflight \ { f }
    /\ applied' = Append(applied, f)
    /\ stderr' = Append(stderr, e)
    /\ UNCHANGED << watch_list, next_id >>
    /\ UNCHANGED viewVars
    /\ UNCHANGED order_book

\* Order Book State.apply(failure) clearing the stale book.
OrderBookFetchedErr_Clears(e) ==
    /\ order_book' = [ order_book EXCEPT !.bids = << >>, !.asks = << >>,
                                         !.last_error = Some(e) ]
    /\ UNCHANGED viewVars
    /\ UNCHANGED dataVars

\* Order Book State.apply(success): replace pair, bids and asks wholesale and
\* clear last_error.
OrderBookFetchedOk(book) ==
    /\ order_book' = [ pair |-> book.pair, bids |-> book.bids, asks |-> book.asks,
                       last_error |-> None ]
    /\ UNCHANGED viewVars
    /\ UNCHANGED dataVars

\* Order Book State.apply(failure): set last_error and keep the stale book.
OrderBookFetchedErr(e) ==
    /\ order_book' = [ order_book EXCEPT !.last_error = Some(e) ]
    /\ UNCHANGED viewVars
    /\ UNCHANGED dataVars

\* Krader::update, one message per step.
Next ==
    \/ \E offset \in Offsets : SyncHeader(offset)
    \/ \E index \in ResizeIndices, offset \in ResizeOffsets : Resizing(index, offset)
    \/ Resized
    \/ FetchData
    \/ \E f \in inflight, tickers \in Batches : DataFetchedOk(f, tickers)
    \/ \E f \in inflight, e \in Errors : DataFetchedErr(f, e)

Spec == Init /\ [][Next]_vars

\* The ids of the fetch tasks of a behaviour.
FetchIds == 0 .. (MaxFetches - 1)

\* The DataFetched message of fetch f is delivered and handled.
Deliver(f) ==
    \/ \E tickers \in Batches : DataFetchedOk(f, tickers)
    \/ \E e \in Errors : DataFetchedErr(f, e)

\* The refresh cycle: ticks, deliveries, and scroll messages arriving in
\* between at any rate.  Resize messages are left out of this specification;
\* they touch no variable a tick or a delivery reads.
NextRefresh ==
    \/ \E offset \in Offsets : SyncHeader(offset)
    \/ FetchData
    \/ \E f \in inflight, tickers \in Batches : DataFetchedOk(f, tickers)
    \/ \E f \in inflight, e \in Errors : DataFetchedErr(f, e)

\* The refresh cycle under the assumption that every request eventually
\* returns: the future of Task::perform completes and the runtime hands its
\* DataFetched message to update.
FairSpec ==
    /\ Init
    /\ [][NextRefresh]_vars
    /\ \A f \in FetchIds : WF_vars(Deliver(f))

\* The order-book refresh on its own: one result applied per step.
NextBook ==
    \/ \E book \in OrderBooks : OrderBookFetchedOk(book)
    \/ \E e \in Errors : OrderBookFetchedErr(e)

BookSpec == Init /\ [][NextBook]_vars

\* ------------------------------------------------------------------ claims

Range(seq) == { seq[k] : k \in 1 .. Len(seq) }

\* The error a row carries: struct WatchItem has no error field.
ErrorOf(item) == IF "error" \in DOMAIN item THEN item.error ELSE None

\* C1: a failed fetch batch, DataFetched(Err), leaves the rows of the watch
\* list exactly as they were: no item added, removed or changed.
C1_FailedBatchKeepsRows ==
    [][ (\E f \in inflight, e \in Errors : DataFetchedErr(f, e))
          => watch_list' = watch_list ]_vars

\* A failure was handled while rows from an earlier success are known.
C1_Witness ==
    /\ Len(applied) = 2
    /\ Len(stderr) = 1
    /\ watch_list = << ItemFull, ItemEmpty >>

\* C2: a successful batch replaces the watch list by exactly the batch's
\* items in the batch's order, whatever the list held before.
C2_SuccessReplaces ==
    [][ \A f \in inflight, tickers \in Batches :
          DataFetchedOk(f, tickers) => watch_list' = tickers ]_vars

\* Two successes were applied and the list is the two-item batch of the second.
C2_Witness ==
    /\ Len(applied) = 2
    /\ stderr = << >>
    /\ watch_list = << ItemEmpty, ItemFull >>

\* C3: on a failed fetch batch every item of the watch list has its error
\* field set to the failure's message.
C3_ErrorBroadcast ==
    [][ \A f \in inflight, e \in Errors :
          DataFetchedErr(f, e)
            => \A k \in 1 .. Len(watch_list') : ErrorOf(watch_list'[k]) = Some(e) ]_vars

\* C4: Resized commits every pending offset in one step: a column with a
\* pending offset gets width + offset and no pending offset, every other
\* column is unchanged, and no column has a pending offset afterwards.
C4_ResizedCommitsAll ==
    [][ Resized =>
          \A i \in DOMAIN columns :
             /\ columns'[i].resize_offset = None
             /\ columns'[i].kind = columns[i].kind
             /\ columns'[i].width =
                  IF columns[i].resize_offset # None
                    THEN columns[i].width + unwrap(columns[i].resize_offset)
                    ELSE columns[i].width ]_vars

\* Two columns have had a pending offset committed; the others kept their width.
C4_Witness ==
    /\ nresizing = 2
    /\ columns[0].width = DefaultWidth + 40
    /\ columns[NumColumns - 1].width = DefaultWidth - 150
    /\ columns[1].width = DefaultWidth
    /\ \A i \in DOMAIN columns : columns[i].resize_offset = None

\* C5: a refresh trigger never cancels a fetch in flight; every in-flight
\* fetch can complete and is applied when it completes, whatever the order
\* the fetches were triggered in, so the watch list holds the tickers of the
\* success that completed last (a failure is applied by leaving the rows).
C5_CompletionOrder ==
    [][ /\ FetchData => inflight \subseteq inflight'
        /\ \A f \in inflight, tickers \in Batches :
             DataFetchedOk(f, tickers)
               => /\ watch_list' = tickers
                  /\ applied' = Append(applied, f)
                  /\ inflight' = inflight \ { f }
        /\ \A f \in inflight, e \in Errors :
             DataFetchedErr(f, e)
               => /\ watch_list' = watch_list
                  /\ applied' = Append(applied, f)
                  /\ inflight' = inflight \ { f } ]_vars

\* The fetch triggered second completed first, and the startup fetch's
\* tickers, applied last, are the watch list.
C5_Witness ==
    /\ applied = << 1, 0 >>
    /\ stderr = << >>
    /\ watch_list = << ItemFull >>

\* C6: every trigger launches exactly one fetch and its result is applied
\* exactly once: every fetch launched is either in flight or applied, never
\* both, no fetch is applied twice, and nothing is applied that was not
\* launched.
C6_TriggerToApply ==
    /\ Range(applied) \cup inflight = 0 .. (next_id - 1)
    /\ Range(applied) \cap inflight = { }
    /\ Cardinality(Range(applied)) = Len(applied)

\* Both the startup fetch and a tick's fetch have been applied.
C6_Witness ==
    /\ next_id = 2
    /\ Len(applied) = 2
    /\ inflight = { }

\* C7: at most one fetch is outstanding in every reachable state.
C7_AtMostOneOutstanding == Cardinality(inflight) <= 1

\* C8: SyncHeader(offset) leaves the header, footer and body panes at the
\* same offset, the one the message carries.
C8_ScrollSync ==
    [][ \A offset \in Offsets :
          SyncHeader(offset)
            => /\ scroll'.header = offset
               /\ scroll'.footer = offset
               /\ scroll'.body = offset ]_vars

\* The panes have been scrolled away from the origin together.
C8_Witness ==
    /\ scroll.body = [ x |-> 30, y |-> 12 ]
    /\ scroll.header = scroll.body
    /\ scroll.footer = scroll.body

\* C9: every column has width >= 0 in every reachable state.
C9_WidthNonNegative == \A i \in DOMAIN columns : columns[i].width >= 0

\* C10: a column has a pending offset only if it received a Resizing since
\* the last Resized (none initially, none right after a commit).
C10_PendingOnlyWhileResizing ==
    \A i \in DOMAIN columns : columns[i].resize_offset # None => i \in begun

\* After a commit, one column is being resized again and the others are not.
C10_Witness ==
    /\ columns[0].width = DefaultWidth + 40
    /\ columns[0].resize_offset = None
    /\ columns[1].resize_offset = Some(-150)
    /\ begun = { 1 }

\* C11: Resized is idempotent: on a column with no pending offset the commit
\* changes nothing, and committing twice gives what committing once gives,
\* so a second consecutive Resized leaves the state of the first.
C11_ResizedIdempotent ==
    /\ \A i \in DOMAIN columns :
         /\ columns[i].resize_offset = None => commit(columns[i]) = columns[i]
         /\ commit(commit(columns[i])) = commit(columns[i])

\* A commit has happened and nothing is pending: the next Resized is the
\* second of two.
C11_Witness ==
    /\ nresizing = 1
    /\ columns[0].width = DefaultWidth + 40
    /\ \A i \in DOMAIN columns : columns[i].resize_offset = None

\* C12: every item of the watch list has its price (last) and its time of
\* last update (last_time) either both set or both empty, and every item a
\* successful batch put in the list has both set.
C12_PriceAndUpdateTogether ==
    \A k \in 1 .. Len(watch_list) :
       /\ (watch_list[k].last = None) <=> (watch_list[k].last_time = None)
       /\ watch_list[k].last # None
       /\ watch_list[k].last_time # None

\* C13: no fetch failure is fatal: in every reachable state, those after any
\* number of DataFetched(Err) included, update accepts every message: a
\* scroll, a resize, a commit, a refresh trigger, and the success or the
\* failure of every fetch still in flight.
C13_FailureNotFatal ==
    /\ \A offset \in Offsets : ENABLED SyncHeader(offset)
    /\ ENABLED Resized
    /\ nresizing < MaxResizing
         => \A index \in ResizeIndices, offset \in ResizeOffsets :
               ENABLED Resizing(index, offset)
    /\ next_id < MaxFetches => ENABLED FetchData
    /\ \A f \in inflight :
         /\ \A tickers \in Batches : ENABLED DataFetchedOk(f, tickers)
         /\ \A e \in Errors : ENABLED DataFetchedErr(f, e)

\* A fetch has failed while the other is still in flight, and messages of
\* every kind are still to come.
C13_Witness ==
    /\ Len(stderr) = 1
    /\ Len(applied) = 1
    /\ inflight = { 0 }
    /\ nresizing < MaxResizing

\* C14: a refresh trigger is accepted whatever the outcome of earlier fetches
\* and whether or not a fetch is in flight, and, every request eventually
\* returning, every fetch launched is eventually applied.
C14_TriggersAndEventualApply ==
    /\ [](next_id < MaxFetches => ENABLED FetchData)
    /\ \A f \in FetchIds : (f \in inflight) ~> (f \in Range(applied))

\* A tick launched a fetch while the startup fetch was in flight, and both
\* have been applied, one of them a failure.
C14_Witness ==
    /\ next_id = 2
    /\ Len(applied) = 2
    /\ Len(stderr) = 1

\* C15: a failed order-book fetch leaves bids, asks and pair as they were and
\* sets last_error to the failure's message; nothing else changes.
C15_FailedBookKeepsLevels ==
    [][ \A e \in Errors :
          OrderBookFetchedErr(e)
            => /\ order_book'.bids = order_book.bids
               /\ order_book'.asks = order_book.asks
               /\ order_book'.pair = order_book.pair
               /\ order_book'.last_error = Some(e) ]_vars

\* A fetch failed after a book with levels on both sides was stored.
C15_Witness ==
    /\ order_book.last_error # None
    /\ Len(order_book.bids) = 2
    /\ Len(order_book.asks) = 1
    /\ order_book.pair # TrackedPair

\* C16: Resizing(index, offset) sets the pending offset of the column at
\* index and changes nothing else: no width, no kind, no other column's
\* pending offset, no row, no scroll offset; with index out of range the
\* columns are unchanged.
C16_ResizingTouchesOneOffset ==
    [][ \A index \in ResizeIndices, offset \in ResizeOffsets :
          Resizing(index, offset)
            => /\ DOMAIN columns' = DOMAIN columns
               /\ \A i \in DOMAIN columns :
                    /\ columns'[i].width = columns[i].width
                    /\ columns'[i].kind = columns[i].kind
                    /\ columns'[i].resize_offset =
                         IF i = index THEN Some(offset) ELSE columns[i].resize_offset
               /\ index \notin DOMAIN columns => columns' = columns
               /\ watch_list' = watch_list
               /\ scroll' = scroll ]_vars

\* Two columns are in the resizing state at once.
C16_Witness ==
    /\ columns[0].resize_offset = Some(40)
    /\ columns[NumColumns - 1].resize_offset = Some(-150)
    /\ columns[0].width = DefaultWidth
    /\ columns[NumColumns - 1].width = DefaultWidth

\* C17: SyncHeader, Resizing and Resized never change the rows; FetchData and
\* DataFetched, success or failure, never change a column; the number of
\* columns and the order of their kinds never change.
C17_ViewAndDataDisjoint ==
    [][ /\ ( \/ \E offset \in Offsets : SyncHeader(offset)
             \/ \E index \in ResizeIndices, offset \in ResizeOffsets :
                   Resizing(index, offset)
             \/ Resized )
           => watch_list' = watch_list
        /\ ( \/ FetchData
             \/ \E f \in inflight, tickers \in Batches : DataFetchedOk(f, tickers)
             \/ \E f \in inflight, e \in Errors : DataFetchedErr(f, e) )
           => columns' = columns
        /\ DOMAIN columns' = DOMAIN columns
        /\ \A i \in DOMAIN columns : columns'[i].kind = columns[i].kind ]_vars

\* Rows are shown while one column has been resized, another is being
\* resized and the panes are scrolled.
C17_Witness ==
    /\ watch_list = << ItemFull, ItemEmpty >>
    /\ columns[0].width = DefaultWidth + 40
    /\ columns[1].resize_offset = Some(-150)
    /\ scroll.body # ZeroOffset
    /\ Len(applied) = 2

\* C18: for every column kind, a row whose field for that kind is absent is
\* shown as the placeholder "N/A".
C18_AbsentShowsPlaceholder ==
    \A k \in 1 .. Len(watch_list) : \A i \in DOMAIN columns :
       watch_list[k][FieldOf(columns[i].kind)] = None
         => cell(columns[i].kind, watch_list[k]) = "N/A"

\* C19: a Resizing for a column whose offset is already pending overwrites
\* the pending offset: the commit that follows adds the new delta alone to
\* the width.
C19_ResizingOverwrites ==
    [][ \A index \in ResizeIndices \cap DOMAIN columns, offset \in ResizeOffsets :
          (columns[index].resize_offset # None /\ Resizing(index, offset))
            => /\ columns'[index].resize_offset = Some(offset)
               /\ commit(columns'[index]).width = columns[index].width + offset ]_vars

\* Column 0 received Resizing twice and the commit added one delta.
C19_Witness ==
    /\ nresizing = 2
    /\ begun = { }
    /\ columns[0].width = DefaultWidth + 40
    /\ \A i \in DOMAIN columns :
         /\ columns[i].resize_offset = None
         /\ i # 0 => columns[i].width = DefaultWidth

\* C20: the program starts with an empty watch list, every column at its
\* default width with no pending offset, and exactly one fetch in flight; the
\* watch list is empty as long as every result applied so far is a failure.
C20_StartupState ==
    /\ next_id >= 1
    /\ (next_id = 1 /\ applied = << >>) => inflight = { 0 }
    /\ nresizing = 0
         => \A i \in DOMAIN columns :
               columns[i] = WatchlistColumn_new(ColumnKinds[i + 1])
    /\ Len(stderr) = Len(applied) => watch_list = << >>

\* Two fetches have failed and the watch list is still empty.
C20_Witness ==
    /\ Len(stderr) = 2
    /\ Len(applied) = 2
    /\ watch_list = << >>

====
